---- MODULE Spec2Model ----
(***************************************************************************)
(* Model of blobbin's render-pipeline manager (graphics::State), its       *)
(* camera controller and the per-object instance store.                    *)
(*                                                                         *)
(* GPU resources are modelled by their identity and size:                  *)
(*   - an instance buffer is named by who allocated it: <<o, n>> for the   *)
(*     buffer that object o (0-based handle) allocated when it held n      *)
(*     instances, <<-1, 0>> for the 3-byte placeholder of State::new;      *)
(*   - a bind-group layout is named by its creation serial number.         *)
(* Lengths are in bytes. Floating point values are modelled exactly:       *)
(* the aspect ratio as the reduced fraction <<w, h>>, eye coordinates and  *)
(* the speed multiplier in fixed units (see EyeUnit).                      *)
(* A panic (unwrap/expect on a failure) ends the process: status becomes   *)
(* "Panicked" and no operation is enabled any more.                        *)
(***************************************************************************)
EXTENDS Integers, Sequences, FiniteSets, TLC

VARIABLES
    status,              \* "Uninitialized" | "Ready" | "InitError" | "Panicked"
    error,               \* diagnostic text carried by the Err of State::new
    size,                \* State.size
    sc_desc,             \* GpuState.sc_desc (width, height)
    swap_chain,          \* GpuState.swap_chain: the descriptor it was created from
    camera,              \* State.camera (eye, aspect)
    camera_controller,   \* State.camera_controller
    uniforms,            \* State.uniforms (host copy of the uniform block)
    uniform_buffer,      \* GpuState.uniform_buffer (device contents, bound size)
    uniform_bind_group,  \* GpuState.uniform_bind_group
    render_pipeline,     \* GpuState.render_pipeline
    objects,             \* State.objects
    last,                \* the last call made by the host and what it returned
    repeated,            \* history: the last call repeats the call before it
    handles,             \* history: handles returned by create_object, in order
    returned,            \* history: per object, indices returned by create_instance
    observed             \* history of the key events (see Observe); kept by the
                         \* specifications of the camera controller only

vars == <<status, error, size, sc_desc, swap_chain, camera, camera_controller,
          uniforms, uniform_buffer, uniform_bind_group, render_pipeline,
          objects, last, repeated, handles, returned, observed>>

(***************************************************************************)
(* Bounds of the model.                                                    *)
(***************************************************************************)
MaxObjects == 2
MaxInstances == 3
MaxEye == 4

(***************************************************************************)
(* Program constants.                                                      *)
(***************************************************************************)
\* size_of::<InstanceRaw>(): one cgmath::Matrix4<f32>, 16 floats of 4 bytes.
InstanceRawSize == 16 * 4
\* size_of::<Uniforms>(): one 4x4 matrix of 32-bit floats.
UniformsSize == 16 * 4
\* The placeholder instance buffer of State::new holds the bytes [0, 1, 2].
PlaceholderSize == Len(<<0, 1, 2>>)
\* Its name: the buffer of no object.
PlaceholderBuffer == <<-1, 0>>
\* ... and is bound with range 0..1.
PlaceholderRange == 1

(***************************************************************************)
(* Inputs.                                                                 *)
(***************************************************************************)
PhysicalSize(w, h) == [width |-> w, height |-> h]
Sizes == {PhysicalSize(1, 1), PhysicalSize(2, 1)}
Meshes == {"quad"}
Positions == {1, 2}
Rotations == {0}
NumIndices(mesh) == IF mesh = "tri" THEN 3 ELSE 6

\* Option values.
None == <<"None">>
Some(v) == <<"Some", v>>
\* virtual_keycode: None
NoKeycode == "None"
\* No diagnostic text.
NoError == ""

RECURSIVE Gcd(_, _)
Gcd(a, b) == IF b = 0 THEN a ELSE Gcd(b, a % b)

\* width as f32 / height as f32, as a reduced fraction.
Ratio(w, h) == <<w \div Gcd(w, h), h \div Gcd(w, h)>>

(***************************************************************************)
(* Camera controller (camera.rs).                                          *)
(***************************************************************************)
\* The speed multiplier is stored in quarters: 0.25, 1.0 and 2.0 are
Quarter == 1
One == 4
Two == 8
\* Eye coordinates are counted in units of speed * 0.25 (0.05 for the speed 0.2
\* of State::new), so that every displacement speed * multiplier is integral
\* and the speed itself is one unit per quarter.
Speed == 1
\* The eye (0.0, 1.0, 50.0) of State::new in these units.
InitialEye == [x |-> 0, y |-> 20, z |-> 1000]

KeyEvent(state, keycode) == [kind |-> "KeyboardInput", state |-> state, keycode |-> keycode]
\* A keyboard event with virtual_keycode: None, and any other window event.
NoKeyEvent(state) == [kind |-> "KeyboardInput", state |-> state, keycode |-> NoKeycode]
OtherEvent == [kind |-> "CursorMoved", state |-> "Released", keycode |-> NoKeycode]

CameraController_new(speed) ==
    [speed |-> speed, x_axis |-> 0, y_axis |-> 0, z_axis |-> 0, speed_multiplier |-> One]

\* CameraController::process_events: the controller after the event, and the
\* value returned.
process_events(c, event) ==
    IF event.kind = "KeyboardInput" /\ event.keycode # NoKeycode
    THEN LET is_pressed == event.state = "Pressed"
             axis_value == IF is_pressed THEN 1 ELSE 0
             keycode == event.keycode
         IN  CASE keycode \in {"A", "Left"} ->
                    [controller |-> [c EXCEPT !.x_axis = -axis_value], consumed |-> TRUE]
               [] keycode \in {"D", "Right"} ->
                    [controller |-> [c EXCEPT !.x_axis = axis_value], consumed |-> TRUE]
               [] keycode \in {"W", "Up"} ->
                    [controller |-> [c EXCEPT !.y_axis = axis_value], consumed |-> TRUE]
               [] keycode \in {"S", "Down"} ->
                    [controller |-> [c EXCEPT !.y_axis = -axis_value], consumed |-> TRUE]
               [] keycode \in {"R", "E"} ->
                    [controller |-> [c EXCEPT !.z_axis = -axis_value], consumed |-> TRUE]
               [] keycode \in {"F", "Q"} ->
                    [controller |-> [c EXCEPT !.z_axis = axis_value], consumed |-> TRUE]
               [] keycode \in {"LShift", "RShift"} ->
                    [controller |-> [c EXCEPT !.speed_multiplier = IF is_pressed THEN Two ELSE One],
                     consumed |-> TRUE]
               [] keycode \in {"LAlt", "RAlt"} ->
                    [controller |-> [c EXCEPT !.speed_multiplier = IF is_pressed THEN Quarter ELSE One],
                     consumed |-> TRUE]
               [] OTHER -> [controller |-> c, consumed |-> FALSE]
    ELSE [controller |-> c, consumed |-> FALSE]

\* update_camera without the speed multiplier.
update_camera_unscaled(c, cam) ==
    [cam EXCEPT !.eye = [x |-> cam.eye.x + c.x_axis * c.speed,
                         y |-> cam.eye.y + c.y_axis * c.speed,
                         z |-> cam.eye.z + c.z_axis * c.speed]]

\* CameraController::update_camera: eye += axis * speed * speed_multiplier,
\* in eye units (speed is one unit per quarter of multiplier).
update_camera(c, cam) ==
    [cam EXCEPT !.eye = [x |-> cam.eye.x + c.x_axis * c.speed * c.speed_multiplier,
                         y |-> cam.eye.y + c.y_axis * c.speed * c.speed_multiplier,
                         z |-> cam.eye.z + c.z_axis * c.speed * c.speed_multiplier]]

\* Uniforms::update_view_proj: the view-projection matrix is a function of the
\* camera's eye and aspect (up, fovy, znear and zfar never change); the block
\* is represented by the camera values it was packed from.
update_view_proj(cam) == [view_proj |-> <<cam.eye, cam.aspect>>]
\* Uniforms::new: the block before any camera was packed into it.
Uniforms_new == [view_proj |-> <<>>]

(***************************************************************************)
(* Object: the per-object geometry and instance store.                     *)
(***************************************************************************)
\* Object::new: immutable vertex/index data, an empty instance list and its
\* (empty) instance buffer. serial is the 0-based creation number.
Object_new(serial, mesh) ==
    [vertex_buffer |-> <<"vb", serial>>,
     index_buffer |-> <<"ib", serial>>,
     num_indices |-> NumIndices(mesh),
     instances |-> <<>>,
     instance_buffer |-> [id |-> <<serial, 0>>, size |-> 0]]

num_instances(object) == Len(object.instances)
instance_buffer(object) == object.instance_buffer.id
instance_buffer_size(object) == object.instance_buffer.size

\* Object::add_instance: appends the instance and replaces the instance buffer
\* by a fresh allocation holding every raw instance.
add_instance(object, position, rotation) ==
    LET instances == Append(object.instances, [position |-> position, rotation |-> rotation])
    IN  [object EXCEPT
            !.instances = instances,
            !.instance_buffer = [id |-> <<object.vertex_buffer[2], Len(instances)>>,
                                 size |-> Len(instances) * InstanceRawSize]]

(***************************************************************************)
(* Instance (instance.rs). A Matrix4 is the sequence of its four columns,  *)
(* each the sequence of its x, y, z and w entries, as cgmath stores it;    *)
(* the entries are integers, which f32 arithmetic computes exactly.        *)
(***************************************************************************)
Vector3(x, y, z) == [x |-> x, y |-> y, z |-> z]
\* Quaternion::new(w, xi, yj, zk): scalar part s, vector part v.
Quaternion(w, xi, yj, zk) == [s |-> w, v |-> Vector3(xi, yj, zk)]

\* Matrix4::from_translation.
from_translation(v) ==
    <<<<1, 0, 0, 0>>, <<0, 1, 0, 0>>, <<0, 0, 1, 0>>, <<v.x, v.y, v.z, 1>>>>

\* Matrix4::from(Quaternion): the rotation matrix of the quaternion, which is
\* not normalized first.
Matrix4_from(quat) ==
    LET x2 == quat.v.x + quat.v.x
        y2 == quat.v.y + quat.v.y
        z2 == quat.v.z + quat.v.z
        xx2 == x2 * quat.v.x
        xy2 == x2 * quat.v.y
        xz2 == x2 * quat.v.z
        yy2 == y2 * quat.v.y
        yz2 == y2 * quat.v.z
        zz2 == z2 * quat.v.z
        sy2 == y2 * quat.s
        sz2 == z2 * quat.s
        sx2 == x2 * quat.s
    IN  <<<<1 - yy2 - zz2, xy2 + sz2, xz2 - sy2, 0>>,
          <<xy2 - sz2, 1 - xx2 - zz2, yz2 + sx2, 0>>,
          <<xz2 + sy2, yz2 - sx2, 1 - xx2 - yy2, 0>>,
          <<0, 0, 0, 1>>>>

\* Matrix4 * Matrix4: column j of the product is the left matrix applied to
\* column j of the right one.
Matrix4_mul(lhs, rhs) ==
    [j \in 1..4 |->
        [i \in 1..4 |->
            lhs[1][i] * rhs[j][1] + lhs[2][i] * rhs[j][2]
                + lhs[3][i] * rhs[j][3] + lhs[4][i] * rhs[j][4]]]

\* to_raw with the two factors in the other order.
to_raw_rotation_first(instance) ==
    [model |-> Matrix4_mul(Matrix4_from(instance.rotation),
                           from_translation(instance.position))]

\* Instance::to_raw.
to_raw(instance) ==
    [model |-> Matrix4_mul(from_translation(instance.position),
                           Matrix4_from(instance.rotation))]

(***************************************************************************)
(* State (state.rs).                                                       *)
(***************************************************************************)
\* What stands for a field of State while there is no State: before State::new
\* has run, after it returned Err, and after a panic.
Absent == [absent |-> TRUE]
\* The unit value, of a call without arguments or without a result.
Unit == [unit |-> TRUE]
\* The result of a call that panicked, with the place of the panic.
Panic(at) == [panic |-> at]

\* param holds the call's arguments and what the platform answered to it, ret
\* what it returned.
NoCall == [op |-> "none", param |-> Unit, ret |-> Unit]
Call(op, param, ret) == [op |-> op, param |-> param, ret |-> ret]

\* The host's record of the call it has just made.
Record(call) ==
    /\ last' = call
    /\ repeated' = (last.op = call.op /\ last.param = call.param)

\* The keys of camera.rs: twelve movement keys, each writing its signed unit
\* value to one axis, and four modifier keys writing the speed multiplier.
MovementKeys == {"A", "Left", "D", "Right", "W", "Up", "S", "Down", "R", "E", "F", "Q"}
ShiftKeys == {"LShift", "RShift"}
AltKeys == {"LAlt", "RAlt"}
RecognizedKeys == MovementKeys \cup ShiftKeys \cup AltKeys
AxisOf(keycode) ==
    CASE keycode \in {"A", "Left", "D", "Right"} -> "x_axis"
      [] keycode \in {"W", "Up", "S", "Down"} -> "y_axis"
      [] keycode \in {"R", "E", "F", "Q"} -> "z_axis"
SignOf(keycode) == IF keycode \in {"D", "Right", "W", "Up", "F", "Q"} THEN 1 ELSE -1

GroupOf(keycode) == IF keycode \in MovementKeys THEN AxisOf(keycode) ELSE "speed_multiplier"

IsKey(call, state, keys) ==
    /\ call.op = "input"
    /\ call.param.event.kind = "KeyboardInput"
    /\ call.param.event.state = state
    /\ call.param.event.keycode \in keys

\* History of the key events, as an observer of the calls keeps it:
\*   before    the controller as it was before the last call;
\*   down      the key-down delivered by the call before the last one, with
\*             the controller as it was before that call; kept while the
\*             last call delivers an event of a key of the same group (the
\*             keys of one axis, or the modifier keys);
\*   written   per axis, the value the most recent event of a key of that axis
\*             stands for: the key's sign on key-down, 0 on key-up (0 before);
\*   modifier  the most recent Shift or Alt event.
NoDown == [event |-> Unit, before |-> Unit]
NotObserved ==
    [before |-> Absent, down |-> NoDown,
     written |-> [x_axis |-> 0, y_axis |-> 0, z_axis |-> 0], modifier |-> "none"]

Observe ==
    observed' =
        [before |-> camera_controller,
         down |-> IF /\ IsKey(last, "Pressed", RecognizedKeys)
                     /\ \E state \in {"Pressed", "Released"} :
                           IsKey(last', state, RecognizedKeys)
                     /\ GroupOf(last'.param.event.keycode) = GroupOf(last.param.event.keycode)
                  THEN [event |-> last.param.event, before |-> observed.before]
                  ELSE NoDown,
         written |->
            IF last'.op = "new" THEN NotObserved.written
            ELSE IF IsKey(last', "Pressed", MovementKeys) \/ IsKey(last', "Released", MovementKeys)
            THEN LET keycode == last'.param.event.keycode
                 IN  [observed.written EXCEPT ![AxisOf(keycode)] =
                        IF last'.param.event.state = "Pressed" THEN SignOf(keycode) ELSE 0]
            ELSE observed.written,
         modifier |->
            CASE last'.op = "new" -> "none"
              [] IsKey(last', "Pressed", ShiftKeys) -> "ShiftDown"
              [] IsKey(last', "Released", ShiftKeys) -> "ShiftUp"
              [] IsKey(last', "Pressed", AltKeys) -> "AltDown"
              [] IsKey(last', "Released", AltKeys) -> "AltUp"
              [] OTHER -> observed.modifier]

Init ==
    /\ status = "Uninitialized"
    /\ error = NoError
    /\ size = Absent
    /\ sc_desc = Absent
    /\ swap_chain = Absent
    /\ camera = Absent
    /\ camera_controller = Absent
    /\ uniforms = Absent
    /\ uniform_buffer = Absent
    /\ uniform_bind_group = Absent
    /\ render_pipeline = Absent
    /\ objects = <<>>
    /\ last = NoCall
    /\ repeated = FALSE
    /\ handles = <<>>
    /\ returned = <<>>
    /\ observed = NotObserved

\* A call that leaves no State behind: a panic unwinds and ends the process,
\* the Err of State::new returns before any State is built.
Ends(st, err, call) ==
    /\ status' = st
    /\ error' = err
    /\ Record(call)
    /\ size' = Absent
    /\ sc_desc' = Absent
    /\ swap_chain' = Absent
    /\ camera' = Absent
    /\ camera_controller' = Absent
    /\ uniforms' = Absent
    /\ uniform_buffer' = Absent
    /\ uniform_bind_group' = Absent
    /\ render_pipeline' = Absent
    /\ objects' = <<>>
    /\ handles' = <<>>
    /\ returned' = <<>>

\* What building the two shader modules can come to: ShaderCompiler::new,
\* vertex_module or fragment_module returns Err, or all three return Ok.
ShaderResults == {"Ok", "compiler", "vertex", "fragment"}
ShaderError(shaders) ==
    CASE shaders = "compiler" -> "Failed to create shader compiler"
      [] shaders = "vertex" -> "vertex shader diagnostic"
      [] shaders = "fragment" -> "fragment shader diagnostic"

\* State::new. window_size is window.inner_size(); adapter tells whether
\* Adapter::request found one, device whether request_device succeeded (it
\* returns no Result: a failure panics inside it).
new(window_size, adapter, device, shaders) ==
    /\ status = "Uninitialized"
    /\ LET call(ret) == Call("new", [window_size |-> window_size], ret)
       IN  IF ~adapter
           THEN Ends("Panicked", NoError, call(Panic("Adapter::request(..).await.unwrap()")))
           ELSE IF ~device
           THEN Ends("Panicked", NoError, call(Panic("adapter.request_device(..).await")))
           ELSE IF shaders # "Ok"
           THEN Ends("InitError", ShaderError(shaders), call([result |-> "Err"]))
           ELSE LET desc == [width |-> window_size.width, height |-> window_size.height]
                    cam == [eye |-> InitialEye, aspect |-> Ratio(desc.width, desc.height)]
                    layout == 0
                IN  /\ status' = "Ready"
                    /\ error' = NoError
                    /\ size' = window_size
                    /\ sc_desc' = desc
                    /\ swap_chain' = desc
                    /\ camera' = cam
                    /\ camera_controller' = CameraController_new(Speed)
                    /\ uniforms' = update_view_proj(cam)
                    /\ uniform_buffer' = [contents |-> update_view_proj(cam),
                                          size |-> UniformsSize]
                    /\ uniform_bind_group' =
                          [layout |-> layout,
                           uniform |-> [buffer |-> "uniform_buffer", range |-> UniformsSize],
                           instance |-> [buffer |-> PlaceholderBuffer, range |-> PlaceholderRange]]
                    /\ render_pipeline' = [layout |-> layout]
                    /\ objects' = <<>>
                    /\ Record(call([result |-> "Ok"]))
                    /\ UNCHANGED <<handles, returned>>

\* The object put before the existing ones.
push_front(objs, object) == <<object>> \o objs

\* self.objects.push(object)
push(objs, object) == Append(objs, object)

\* The length of the list after the push, not the position of the new object.
create_object_ret_len(objs) == Len(objs)

\* The value create_object returns, from the list after the push.
create_object_ret(objs) == Len(objs) - 1

\* State::create_object.
create_object(mesh) ==
    /\ status = "Ready"
    /\ Len(objects) < MaxObjects
    /\ status' = "Ready"
    /\ LET object == Object_new(Len(objects), mesh)
           pushed == push(objects, object)
           handle == create_object_ret(pushed)
       IN  /\ objects' = pushed
           /\ Record(Call("create_object", [mesh |-> mesh], [handle |-> handle]))
           /\ handles' = Append(handles, [handle |-> handle, object |-> object.vertex_buffer])
           /\ returned' = Append(returned, <<>>)
    /\ UNCHANGED <<error, size, sc_desc, swap_chain, camera, camera_controller,
                   uniforms, uniform_buffer, uniform_bind_group, render_pipeline>>

\* An index that wraps around instead of failing.
get_mut_wrapped(objs, object_id) ==
    IF Len(objs) > 0 THEN Some((object_id % Len(objs)) + 1) ELSE None

\* self.objects.get_mut(object_id): the position of the object in the list
\* (sequences count from 1), or None.
get_mut(objs, object_id) ==
    IF object_id < Len(objs) THEN Some(object_id + 1) ELSE None

\* create_instance without the rebuild of the bind group: the one in use stays.
create_bind_group_kept(layout, object) == uniform_bind_group

\* The bind group with the uniform binding ranged like the instance binding.
create_bind_group_one_range(layout, object) ==
    [layout |-> layout,
     uniform |-> [buffer |-> "uniform_buffer", range |-> instance_buffer_size(object)],
     instance |-> [buffer |-> instance_buffer(object),
                   range |-> instance_buffer_size(object)]]

\* The bind group with the instance binding ranged by the instance count.
create_bind_group_count_range(layout, object) ==
    [layout |-> layout,
     uniform |-> [buffer |-> "uniform_buffer", range |-> UniformsSize],
     instance |-> [buffer |-> instance_buffer(object),
                   range |-> num_instances(object)]]

\* The bind group with the instance binding of the first object's buffer,
\* whichever object was modified.
create_bind_group_first(layout, object) ==
    [layout |-> layout,
     uniform |-> [buffer |-> "uniform_buffer", range |-> UniformsSize],
     instance |-> [buffer |-> instance_buffer(objects[1]),
                   range |-> instance_buffer_size(objects[1])]]

\* The bind group create_instance builds for the object it has just modified.
create_bind_group(layout, object) ==
    [layout |-> layout,
     uniform |-> [buffer |-> "uniform_buffer", range |-> UniformsSize],
     instance |-> [buffer |-> instance_buffer(object),
                   range |-> instance_buffer_size(object)]]

\* The render pipeline create_instance builds over the new layout.
create_render_pipeline(layout) == [layout |-> layout]

\* The instance count after the insertion, not the index of the new instance.
create_instance_ret_count(object) == Some(num_instances(object))

\* The value create_instance returns for the modified object.
create_instance_ret(object) == Some(num_instances(object) - 1)

\* The number of instances of all objects together.
RECURSIVE TotalInstances(_)
TotalInstances(objs) ==
    IF objs = <<>> THEN 0 ELSE num_instances(Head(objs)) + TotalInstances(Tail(objs))

\* State::create_instance. Each of ShaderCompiler::new, vertex_module and
\* fragment_module is unwrapped: an Err panics, after the object and the bind
\* group were replaced and before the pipeline is.
create_instance(object_id, position, rotation, shaders) ==
    /\ status = "Ready"
    /\ LET param == [object_id |-> object_id, position |-> position,
                     rotation |-> rotation]
           got == get_mut(objects, object_id)
       IN  IF got # None
           THEN LET i == got[2]
                    object == add_instance(objects[i], position, rotation)
                    layout == uniform_bind_group.layout + 1
                IN  /\ TotalInstances(objects) < MaxInstances
                    /\ IF shaders = "Ok"
                       THEN /\ status' = "Ready"
                            /\ objects' = [objects EXCEPT ![i] = object]
                            /\ uniform_bind_group' = create_bind_group(layout, object)
                            /\ render_pipeline' = create_render_pipeline(layout)
                            /\ Record(Call("create_instance", param,
                                        [index |-> create_instance_ret(object)]))
                            /\ returned' = [returned EXCEPT ![i] =
                                   Append(@, [ret |-> create_instance_ret(object),
                                              instance |-> [position |-> position,
                                                            rotation |-> rotation]])]
                            /\ UNCHANGED <<error, size, sc_desc, swap_chain, camera,
                                           camera_controller, uniforms,
                                           uniform_buffer, handles>>
                       ELSE Ends("Panicked", NoError,
                                 Call("create_instance", param,
                                      Panic("shader module .unwrap()")))
           ELSE /\ status' = "Ready"
                /\ Record(Call("create_instance", param, [index |-> None]))
                /\ UNCHANGED <<error, size, sc_desc, swap_chain, camera,
                               camera_controller, uniforms, uniform_buffer,
                               uniform_bind_group, render_pipeline, objects, handles,
                               returned>>

\* A descriptor taken from the size stored before this call.
resize_desc_stale(desc, new_size) ==
    [desc EXCEPT !.width = size.width, !.height = size.height]

\* The swap-chain descriptor after resize.
resize_desc(desc, new_size) ==
    [desc EXCEPT !.width = new_size.width, !.height = new_size.height]

\* State::resize.
resize(new_size) ==
    /\ status = "Ready"
    /\ status' = "Ready"
    /\ size' = new_size
    /\ sc_desc' = resize_desc(sc_desc, new_size)
    /\ swap_chain' = sc_desc'
    /\ Record(Call("resize", [new_size |-> new_size], Unit))
    /\ UNCHANGED <<error, camera, camera_controller, uniforms, uniform_buffer,
                   uniform_bind_group, render_pipeline, objects, handles, returned>>

\* input with the value of a movement key added to its axis instead of
\* written over it.
input_additive(event) ==
    /\ status = "Ready"
    /\ status' = "Ready"
    /\ LET r == process_events(camera_controller, event)
       IN  /\ camera_controller' =
                 IF event.keycode \in MovementKeys
                 THEN [r.controller EXCEPT ![AxisOf(event.keycode)] =
                          camera_controller[AxisOf(event.keycode)] + @]
                 ELSE r.controller
           /\ Record(Call("input", [event |-> event], [consumed |-> r.consumed]))
    /\ UNCHANGED <<error, size, sc_desc, swap_chain, camera, uniforms,
                   uniform_buffer, uniform_bind_group, render_pipeline, objects,
                   handles, returned>>

\* input that reports every keyboard event as consumed.
input_consuming_all(event) ==
    /\ status = "Ready"
    /\ status' = "Ready"
    /\ LET r == process_events(camera_controller, event)
       IN  /\ camera_controller' = r.controller
           /\ Record(Call("input", [event |-> event],
                           [consumed |-> event.kind = "KeyboardInput"]))
    /\ UNCHANGED <<error, size, sc_desc, swap_chain, camera, uniforms,
                   uniform_buffer, uniform_bind_group, render_pipeline, objects,
                   handles, returned>>

\* input in which the key-up of one modifier leaves the multiplier that the
\* other modifier has set.
input_other_modifier_kept(event) ==
    /\ status = "Ready"
    /\ status' = "Ready"
    /\ LET r == process_events(camera_controller, event)
           other_set ==
               /\ event.state = "Released"
               /\ \/ event.keycode \in AltKeys /\ camera_controller.speed_multiplier = Two
                  \/ event.keycode \in ShiftKeys /\ camera_controller.speed_multiplier = Quarter
       IN  /\ camera_controller' = IF other_set THEN camera_controller ELSE r.controller
           /\ Record(Call("input", [event |-> event], [consumed |-> r.consumed]))
    /\ UNCHANGED <<error, size, sc_desc, swap_chain, camera, uniforms,
                   uniform_buffer, uniform_bind_group, render_pipeline, objects,
                   handles, returned>>

\* input with key-up events not passed on to the controller.
input_key_up_dropped(event) ==
    /\ status = "Ready"
    /\ status' = "Ready"
    /\ LET r == process_events(camera_controller, event)
       IN  /\ camera_controller' =
                 IF event.state = "Released" THEN camera_controller ELSE r.controller
           /\ Record(Call("input", [event |-> event], [consumed |-> r.consumed]))
    /\ UNCHANGED <<error, size, sc_desc, swap_chain, camera, uniforms,
                   uniform_buffer, uniform_bind_group, render_pipeline, objects,
                   handles, returned>>

\* State::input.
input(event) ==
    /\ status = "Ready"
    /\ status' = "Ready"
    /\ LET r == process_events(camera_controller, event)
       IN  /\ camera_controller' = r.controller
           /\ Record(Call("input", [event |-> event], [consumed |-> r.consumed]))
    /\ UNCHANGED <<error, size, sc_desc, swap_chain, camera, uniforms,
                   uniform_buffer, uniform_bind_group, render_pipeline, objects,
                   handles, returned>>

Abs(n) == IF n < 0 THEN -n ELSE n

\* The eye stays within MaxEye units of where State::new put it.
EyeInBounds(eye) ==
    /\ Abs(eye.x - InitialEye.x) <= MaxEye
    /\ Abs(eye.y - InitialEye.y) <= MaxEye
    /\ Abs(eye.z - InitialEye.z) <= MaxEye

\* update with the block repacked before the camera is advanced.
update_repacked_first ==
    /\ status = "Ready"
    /\ LET cam == update_camera(camera_controller, camera)
           block == update_view_proj(camera)
           staging_buffer == [contents |-> block, size |-> UniformsSize]
           copy_size == UniformsSize
       IN  /\ EyeInBounds(cam.eye)
           /\ status' = "Ready"
           /\ camera' = cam
           /\ uniforms' = block
           /\ uniform_buffer' = [uniform_buffer EXCEPT !.contents = staging_buffer.contents]
           /\ Record(Call("update", Unit,
                           [source |-> staging_buffer, source_offset |-> 0,
                            destination |-> "uniform_buffer", destination_offset |-> 0,
                            copy_size |-> copy_size]))
    /\ UNCHANGED <<error, size, sc_desc, swap_chain, camera_controller,
                   uniform_bind_group, render_pipeline, objects, handles, returned>>

\* State::update. The staging buffer holds the repacked block; the submitted
\* copy writes copy_size bytes of it to offset 0 of the uniform buffer.
update ==
    /\ status = "Ready"
    /\ LET cam == update_camera(camera_controller, camera)
           block == update_view_proj(cam)
           staging_buffer == [contents |-> block, size |-> UniformsSize]
           copy_size == UniformsSize
       IN  /\ EyeInBounds(cam.eye)
           /\ status' = "Ready"
           /\ camera' = cam
           /\ uniforms' = block
           /\ uniform_buffer' = [uniform_buffer EXCEPT !.contents = staging_buffer.contents]
           /\ Record(Call("update", Unit,
                           [source |-> staging_buffer, source_offset |-> 0,
                            destination |-> "uniform_buffer", destination_offset |-> 0,
                            copy_size |-> copy_size]))
    /\ UNCHANGED <<error, size, sc_desc, swap_chain, camera_controller,
                   uniform_bind_group, render_pipeline, objects, handles, returned>>

\* The loop without its test of the instance count.
RECURSIVE draw_calls_unconditional(_, _, _)
draw_calls_unconditional(objs, i, bind_group) ==
    IF i > Len(objs) THEN <<>>
    ELSE <<[vertex_buffer |-> objs[i].vertex_buffer,
            index_buffer |-> objs[i].index_buffer,
            indices |-> <<0, objs[i].num_indices>>,
            instances |-> <<0, num_instances(objs[i])>>,
            bind_group |-> bind_group]>>
         \o draw_calls_unconditional(objs, i + 1, bind_group)

\* The loop of State::render over objects[i..]: the draws it records, each
\* with the bind group set for the pass. (The cast of num_instances() to u32
\* changes no count below 2^32.)
RECURSIVE draw_calls(_, _, _)
draw_calls(objs, i, bind_group) ==
    IF i > Len(objs) THEN <<>>
    ELSE LET object == objs[i]
             num_instanaces == num_instances(object)
         IN  (IF num_instanaces > 0
              THEN <<[vertex_buffer |-> object.vertex_buffer,
                      index_buffer |-> object.index_buffer,
                      indices |-> <<0, object.num_indices>>,
                      instances |-> <<0, num_instanaces>>,
                      bind_group |-> bind_group]>>
              ELSE <<>>)
             \o draw_calls(objs, i + 1, bind_group)

\* State::render. frame tells whether get_next_texture returned Ok; the Err
\* (a timeout) meets expect(). What a successful call submits is returned.
render(frame) ==
    /\ status = "Ready"
    /\ IF frame
       THEN /\ status' = "Ready"
            /\ Record(Call("render", [frame |-> frame],
                            [pipeline |-> render_pipeline,
                             draws |-> draw_calls(objects, 1, uniform_bind_group)]))
            /\ UNCHANGED <<error, size, sc_desc, swap_chain, camera,
                           camera_controller, uniforms, uniform_buffer,
                           uniform_bind_group, render_pipeline, objects, handles,
                           returned>>
       ELSE Ends("Panicked", NoError,
                 Call("render", [frame |-> frame],
                      Panic("get_next_texture().expect(\"Timeout getting texture\")")))

(***************************************************************************)
(* The host: one State, driven by calls in any order.                      *)
(***************************************************************************)
Events ==
    {KeyEvent("Pressed", "A"), KeyEvent("Released", "A"), KeyEvent("Pressed", "Escape"),
     OtherEvent}

Next ==
    \/ \E window_size \in Sizes, adapter, device \in BOOLEAN, shaders \in ShaderResults :
          new(window_size, adapter, device, shaders) /\ UNCHANGED observed
    \/ \E mesh \in Meshes : create_object(mesh) /\ UNCHANGED observed
    \/ \E object_id \in 0..MaxObjects, position \in Positions, rotation \in Rotations,
          shaders \in ShaderResults :
          create_instance(object_id, position, rotation, shaders) /\ UNCHANGED observed
    \/ \E new_size \in Sizes : resize(new_size) /\ UNCHANGED observed
    \/ \E event \in Events : input(event) /\ UNCHANGED observed
    \/ update /\ UNCHANGED observed
    \/ \E frame \in BOOLEAN : render(frame) /\ UNCHANGED observed

Spec == Init /\ [][Next]_vars

(***************************************************************************)
(* The camera controller alone: one State, built without a failure, that   *)
(* receives every key of camera.rs, a key that is not one of them, a       *)
(* keyboard event without a keycode and a window event of another kind.    *)
(***************************************************************************)
KeyStates == {"Pressed", "Released"}
AllEvents ==
    {KeyEvent(state, keycode) : state \in KeyStates, keycode \in RecognizedKeys \cup {"Escape"}}
        \cup {NoKeyEvent(state) : state \in KeyStates} \cup {OtherEvent}

NextController ==
    \/ new(PhysicalSize(2, 1), TRUE, TRUE, "Ok") /\ Observe
    \/ \E event \in AllEvents : input(event) /\ Observe

SpecController == Init /\ [][NextController]_vars

(***************************************************************************)
(* The camera: one State, built without a failure, that receives key       *)
(* events of the three axes and of the quarter multiplier between its      *)
(* per-frame updates.                                                      *)
(***************************************************************************)
CameraEvents ==
    {KeyEvent("Pressed", "A"), KeyEvent("Released", "A"), KeyEvent("Pressed", "W"),
     KeyEvent("Pressed", "F"), KeyEvent("Pressed", "LAlt"), KeyEvent("Released", "LAlt")}

NextCamera ==
    \/ \E window_size \in Sizes : new(window_size, TRUE, TRUE, "Ok") /\ UNCHANGED observed
    \/ \E event \in CameraEvents : input(event) /\ UNCHANGED observed
    \/ update /\ UNCHANGED observed

SpecCamera == Init /\ [][NextCamera]_vars

(***************************************************************************)
(* Instance::to_raw, called on instances of any position and rotation; it  *)
(* takes no State.                                                         *)
(***************************************************************************)
Coordinates == {-2, 3}
Scalars == {-1, 0, 1}
Components == {0, 1}
Instances ==
    {[position |-> Vector3(x, y, z), rotation |-> Quaternion(w, xi, yj, zk)] :
        x \in Coordinates, y \in Coordinates, z \in Coordinates,
        w \in Scalars, xi \in Components, yj \in Components, zk \in Components}

to_raw_call(instance) ==
    /\ status' = status
    /\ Record(Call("to_raw", [instance |-> instance], to_raw(instance)))
    /\ UNCHANGED <<error, size, sc_desc, swap_chain, camera, camera_controller,
                   uniforms, uniform_buffer, uniform_bind_group, render_pipeline,
                   objects, handles, returned, observed>>

NextInstance == \E instance \in Instances : to_raw_call(instance)

SpecInstance == Init /\ [][NextInstance]_vars

(***************************************************************************)
(* Properties.                                                             *)
(***************************************************************************)
Ready == status = "Ready"

\* The last call was a render() that acquired its frame and submitted.
Rendered == Ready /\ last.op = "render"
\* The last call was a create_instance that returned Some(index).
InstanceCreated == Ready /\ last.op = "create_instance" /\ last.ret.index # None

\* The places in the submitted draws that draw the given object.
DrawsOf(draws, object) ==
    {k \in 1..Len(draws) : draws[k].vertex_buffer = object.vertex_buffer}

\* The object a draw draws.
Drawn(draw) ==
    CHOOSE object \in {objects[i] : i \in 1..Len(objects)} :
        object.vertex_buffer = draw.vertex_buffer

\* C1: a render() issues exactly one instanced indexed draw for every object
\* with at least one instance, with that object's buffers, index count and
\* instance count, in object-creation order, and no draw for an object without
\* instances.
C1_RenderDrawsInstancedObjects ==
    Rendered =>
        LET draws == last.ret.draws
        IN  /\ \A i \in 1..Len(objects) :
                   LET object == objects[i]
                       ds == DrawsOf(draws, object)
                   IN  IF num_instances(object) > 0
                       THEN /\ Cardinality(ds) = 1
                            /\ \A k \in ds :
                                   /\ draws[k].index_buffer = object.index_buffer
                                   /\ draws[k].indices = <<0, object.num_indices>>
                                   /\ draws[k].instances = <<0, num_instances(object)>>
                       ELSE ds = {}
            /\ \A k \in 1..Len(draws) :
                   \E i \in 1..Len(objects) : k \in DrawsOf(draws, objects[i])
            /\ \A i, j \in 1..Len(objects) :
                   \A k \in DrawsOf(draws, objects[i]), l \in DrawsOf(draws, objects[j]) :
                       i < j => k < l

\* C1 witness: one object with three instances and one with none, rendered
\* as a single draw of three instances.
C1_Witness ==
    /\ Rendered
    /\ Len(objects) = 2
    /\ \E i, j \in 1..2 :
           num_instances(objects[i]) = 3 /\ num_instances(objects[j]) = 0
    /\ Len(last.ret.draws) = 1
    /\ last.ret.draws[1].instances = <<0, 3>>

\* C2: at every render(), every draw is made with a bind group whose instance
\* binding is the drawn object's own instance buffer, over the bytes of all
\* its instances.
C2_DrawnObjectBindingAgrees ==
    Rendered =>
        \A k \in 1..Len(last.ret.draws) :
            LET draw == last.ret.draws[k]
            IN  /\ draw.bind_group.instance.buffer = instance_buffer(Drawn(draw))
                /\ draw.bind_group.instance.range =
                       num_instances(Drawn(draw)) * InstanceRawSize

\* The instance buffers that a reallocation has replaced.
Replaced ==
    UNION {{<<objects[i].vertex_buffer[2], n>> : n \in 0..(num_instances(objects[i]) - 1)} :
           i \in 1..Len(objects)}

\* C3: every successful create_instance has rebuilt the layout, the bind group
\* and the pipeline when it returns (one new layout per successful call, used
\* by both), the instance binding then is the modified object's current buffer
\* over 0..instance_buffer_size(), and the bind group never refers to an
\* instance buffer that a reallocation has replaced.
C3_RebuiltBeforeReturn ==
    Ready =>
        /\ uniform_bind_group.layout = TotalInstances(objects)
        /\ render_pipeline.layout = uniform_bind_group.layout
        /\ uniform_bind_group.instance.buffer \notin Replaced
        /\ InstanceCreated =>
               LET object == objects[last.param.object_id + 1]
               IN  uniform_bind_group.instance =
                       [buffer |-> instance_buffer(object),
                        range |-> instance_buffer_size(object)]

\* C3 witness: a second instance was added to an object, replacing the buffer
\* that the bind group referred to, while another object exists.
C3_Witness ==
    /\ InstanceCreated
    /\ Len(objects) = 2
    /\ last.ret.index = Some(1)
    /\ uniform_bind_group.instance.range = 2 * InstanceRawSize

\* C4: every object holds as many instances as successful create_instance
\* calls were made on it, the k-th of them returned Some(k - 1), and the
\* instance at a returned index is still the one that call added.
C4_InstanceIndicesStable ==
    Ready =>
        \A i \in 1..Len(objects) :
            /\ num_instances(objects[i]) = Len(returned[i])
            /\ \A k \in 1..Len(returned[i]) :
                   /\ returned[i][k].ret = Some(k - 1)
                   /\ k \in DOMAIN objects[i].instances
                   /\ objects[i].instances[k] = returned[i][k].instance

\* C4 witness: calls on two objects interleaved, the first object holding two
\* different instances.
C4_Witness ==
    /\ InstanceCreated
    /\ Len(objects) = 2
    /\ Len(returned[1]) = 2
    /\ Len(returned[2]) = 1
    /\ returned[1][1].instance # returned[1][2].instance
    /\ last.param.object_id = 0

\* C5: a create_instance with an object_id that is no handle returns None,
\* does not abort, and leaves the objects (their instance lists and instance
\* buffers), the bind group and the render pipeline as they were.
C5_UnknownHandleNoEffect ==
    [][(Ready /\ last'.op = "create_instance" /\ last'.param.object_id >= Len(objects))
         => /\ last'.ret.index = None
            /\ status' = "Ready"
            /\ UNCHANGED <<objects, uniform_bind_group, render_pipeline>>]_vars

\* C5 witness: None was returned for a handle past the end while an object
\* with an instance exists.
C5_Witness ==
    /\ Ready
    /\ last.op = "create_instance"
    /\ last.ret.index = None
    /\ last.param.object_id >= Len(objects)
    /\ \E i \in 1..Len(objects) : num_instances(objects[i]) > 0

\* C6: the n-th create_object returned n - 1, and after any calls every
\* returned handle still designates the object created by that call.
C6_HandlesStable ==
    Ready =>
        /\ Len(handles) = Len(objects)
        /\ \A n \in 1..Len(handles) :
               /\ handles[n].handle = n - 1
               /\ handles[n].handle + 1 \in DOMAIN objects
               /\ objects[handles[n].handle + 1].vertex_buffer = handles[n].object
        /\ \A m, n \in 1..Len(handles) :
               m # n => handles[m].handle # handles[n].handle

\* C6 witness: two objects, one with instances, rendered after an input and an
\* update that moved the camera and a resize to another aspect.
C6_Witness ==
    /\ Ready
    /\ Len(handles) = 2
    /\ num_instances(objects[1]) > 0
    /\ camera.eye # InitialEye
    /\ Ratio(size.width, size.height) # camera.aspect
    /\ last.op = "render"

\* C7: after a resize the stored size and the swap-chain descriptor are the
\* new size and the camera aspect is new width / new height.
C7_ResizeSyncsAspect ==
    (Ready /\ last.op = "resize") =>
        /\ size = last.param.new_size
        /\ sc_desc.width = size.width /\ sc_desc.height = size.height
        /\ camera.aspect = Ratio(sc_desc.width, sc_desc.height)

\* C8: a resize that repeats the resize before it, with the same size, leaves
\* the stored size, the swap-chain descriptor (and the swap chain made from
\* it) and the camera aspect as the first call left them.
C8_ResizeIdempotent ==
    [][(Ready /\ last.op = "resize" /\ last'.op = "resize" /\ last'.param = last.param)
         => /\ size' = size
            /\ sc_desc' = sc_desc
            /\ swap_chain' = swap_chain
            /\ camera'.aspect = camera.aspect]_vars

\* C8 witness: the same size was given twice in a row, and it is not the size
\* the window had at start-up.
C8_Witness ==
    /\ Ready
    /\ last.op = "resize"
    /\ repeated
    /\ size = last.param.new_size
    /\ Ratio(size.width, size.height) # camera.aspect

\* C9: a render() that cannot acquire the next frame does not abort: the
\* manager stays usable for a later render().
C9_FrameLossRecoverable ==
    (last.op = "render" /\ ~last.param.frame) => status = "Ready"

\* C10: every start-up failure of State::new is returned to the caller as an
\* error carrying diagnostic text, and no State is produced.
C10_StartupFailureReturned ==
    (last.op = "new" /\ last.ret # [result |-> "Ok"])
        => (status = "InitError" /\ last.ret = [result |-> "Err"] /\ error # NoError)

(***************************************************************************)
(* Properties of the camera controller (SpecController).                   *)
(***************************************************************************)
ControllerFields == {"speed", "x_axis", "y_axis", "z_axis", "speed_multiplier"}
InputOf(event) == last.op = "input" /\ last.param.event = event
\* The last two calls delivered key-down and then key-up of the same key.
Tapped(keycode) ==
    /\ observed.down.event = KeyEvent("Pressed", keycode)
    /\ InputOf(KeyEvent("Released", keycode))

\* C11: for every movement key and every state of the controller, a key-down
\* of the key immediately followed by a key-up of the same key leaves the key's
\* axis at exactly 0 and leaves the other two axes, the speed and the speed
\* multiplier as they were before the key-down.
C11_TapLeavesAxisZero ==
    \A keycode \in MovementKeys :
        Tapped(keycode) =>
            /\ camera_controller[AxisOf(keycode)] = 0
            /\ \A field \in ControllerFields \ {AxisOf(keycode)} :
                  camera_controller[field] = observed.down.before[field]

\* A tap of A while D is held, S is held and Shift is down: the x axis ends at
\* 0, not at the +1 it had before the tap.
C11_Witness ==
    /\ Tapped("A")
    /\ observed.down.before.x_axis = 1
    /\ camera_controller.x_axis = 0
    /\ camera_controller.y_axis = -1
    /\ camera_controller.speed_multiplier = Two

Axes == {"x_axis", "y_axis", "z_axis"}
\* The last two calls delivered a key-down of first and then an event of
\* second, a key of the same axis.
Followed(first, state, second) ==
    /\ observed.down.event = KeyEvent("Pressed", first)
    /\ InputOf(KeyEvent(state, second))

\* C12: key handling is last-write-wins, not additive. After any sequence of
\* key events every axis holds the value of the most recent event of a key of
\* that axis alone (the key's signed unit on key-down, 0 on key-up, 0 before
\* any): a key-down of one direction followed by a key-down of the opposite
\* direction leaves the axis at the second key's value, and a key-up of one
\* key leaves the axis at 0 while the opposite key is still held.
C12_LastWriteWins ==
    Ready =>
        /\ \A axis \in Axes : camera_controller[axis] = observed.written[axis]
        /\ \A first, second \in MovementKeys :
              AxisOf(first) = AxisOf(second) /\ SignOf(first) # SignOf(second) =>
                /\ Followed(first, "Pressed", second) =>
                      camera_controller[AxisOf(second)] = SignOf(second)
                /\ Followed(first, "Released", second) =>
                      camera_controller[AxisOf(second)] = 0

\* Left-down then right-down: the x axis is +1, not 0.
C12_Witness ==
    /\ Followed("Left", "Pressed", "Right")
    /\ camera_controller.x_axis = 1
    /\ observed.written.x_axis = 1

\* D is held and A is released: the x axis is 0.
C12_HeldWitness ==
    /\ Followed("D", "Released", "A")
    /\ observed.down.before.x_axis = 0
    /\ camera_controller.x_axis = 0

Recognized(event) == event.kind = "KeyboardInput" /\ event.keycode \in RecognizedKeys

\* C13: input(event) returns true exactly when the event is a keyboard event
\* carrying one of the recognized keys (A/Left, D/Right, W/Up, S/Down, R/E,
\* F/Q, LShift/RShift, LAlt/RAlt); for every other event (another key, a
\* keyboard event without a keycode, a window event of another kind) it
\* returns false and leaves the controller as it was.
C13_ConsumedIffRecognized ==
    last.op = "input" =>
        /\ last.ret.consumed <=> Recognized(last.param.event)
        /\ ~Recognized(last.param.event) => camera_controller = observed.before

\* An unrecognized key arrives at a controller that is moving left at a
\* quarter of the speed: false is returned and the controller is as before.
C13_Witness ==
    /\ InputOf(KeyEvent("Pressed", "Escape"))
    /\ ~last.ret.consumed
    /\ camera_controller.x_axis = -1
    /\ camera_controller.speed_multiplier = Quarter
    /\ observed.before = camera_controller

\* A recognized key is consumed.
C13_ConsumedWitness ==
    /\ InputOf(KeyEvent("Released", "RAlt"))
    /\ last.ret.consumed

\* C19: in every state of the controller each axis is -1, 0 or +1 and the speed
\* multiplier is 0.25, 1.0 or 2.0; it is 2.0 only if the most recent Shift or
\* Alt event was a Shift key-down and 0.25 only if it was an Alt key-down; a
\* key-up of Shift or of Alt resets it to 1.0, also while the other modifier
\* is still held.
C19_AxesAndMultiplierValues ==
    Ready =>
        /\ \A axis \in Axes : camera_controller[axis] \in {-1, 0, 1}
        /\ camera_controller.speed_multiplier \in {Quarter, One, Two}
        /\ camera_controller.speed_multiplier = Two => observed.modifier = "ShiftDown"
        /\ camera_controller.speed_multiplier = Quarter => observed.modifier = "AltDown"
        /\ observed.modifier \in {"ShiftUp", "AltUp"} => camera_controller.speed_multiplier = One

\* Alt is pressed, then Shift, then Alt is released: the multiplier is 1.0
\* while Shift is still held.
C19_Witness ==
    /\ Followed("LShift", "Released", "LAlt")
    /\ observed.down.before.speed_multiplier = Quarter
    /\ observed.before.speed_multiplier = Two
    /\ observed.modifier = "AltUp"
    /\ camera_controller.speed_multiplier = One
    /\ camera_controller.z_axis = 1

(***************************************************************************)
(* Properties of the per-frame update (SpecCamera).                        *)
(***************************************************************************)
Updated == Ready /\ last.op = "update"

\* C14: every update() moves the eye by exactly (x_axis, y_axis, z_axis) *
\* speed * speed_multiplier, taken from the controller as it is when update is
\* called, with no scaling by elapsed time; with the three axes at 0 the eye is
\* unchanged; update changes neither the controller nor any field of the
\* camera other than the eye.
C14_UpdateMovesEye ==
    [][last'.op = "update" =>
        LET c == camera_controller
            step == c.speed * c.speed_multiplier
        IN  /\ camera'.eye = [x |-> camera.eye.x + c.x_axis * step,
                              y |-> camera.eye.y + c.y_axis * step,
                              z |-> camera.eye.z + c.z_axis * step]
            /\ (c.x_axis = 0 /\ c.y_axis = 0 /\ c.z_axis = 0 => camera'.eye = camera.eye)
            /\ camera'.aspect = camera.aspect
            /\ camera_controller' = c]_vars

\* An update at a quarter of the speed while moving left and up: the eye is
\* one unit left of and one unit above where State::new put it.
C14_Witness ==
    /\ Updated
    /\ camera_controller.speed_multiplier = Quarter
    /\ camera_controller.x_axis = -1 /\ camera_controller.y_axis = 1
    /\ camera_controller.z_axis = 0
    /\ camera.eye = [x |-> InitialEye.x - 1, y |-> InitialEye.y + 1, z |-> InitialEye.z]

\* C15: within one update() the camera is advanced, the uniform block is
\* repacked from the advanced camera, a new staging buffer is created holding
\* that block, and one copy of exactly size_of(Uniforms) bytes from offset 0 of
\* the staging buffer to offset 0 of the live uniform buffer is submitted: the
\* data submitted is packed from the eye that this same update produced. After
\* initialization the live uniform buffer changes by such a copy only.
C15_UpdateStagesAdvancedCamera ==
    [][/\ last'.op = "update" =>
            /\ camera' = update_camera(camera_controller, camera)
            /\ uniforms' = update_view_proj(camera')
            /\ last'.ret.source = [contents |-> uniforms', size |-> UniformsSize]
            /\ last'.ret.source_offset = 0
            /\ last'.ret.destination = "uniform_buffer"
            /\ last'.ret.destination_offset = 0
            /\ last'.ret.copy_size = UniformsSize
            /\ uniform_buffer'.contents = last'.ret.source.contents
            /\ uniform_buffer'.contents.view_proj[1] = camera'.eye
       /\ Ready /\ Ready' /\ uniform_buffer' # uniform_buffer =>
            /\ last'.op = "update"
            /\ uniform_buffer' = [uniform_buffer EXCEPT !.contents = last'.ret.source.contents]
      ]_vars

\* An update that moved the eye: the uniform buffer holds the block of the
\* moved eye.
C15_Witness ==
    /\ Updated
    /\ camera.eye # InitialEye
    /\ last.ret.source.contents = update_view_proj(camera)
    /\ uniform_buffer.contents = update_view_proj(camera)

(***************************************************************************)
(* Properties of the bindings' byte ranges (Spec).                         *)
(***************************************************************************)
\* C16: in every state after initialization, and so after every rebuild by
\* create_instance, the uniform binding covers exactly 0..size_of(Uniforms) of
\* the uniform buffer, which is also the size the uniform buffer was allocated
\* with and the size of the staging buffer and of the copy of every update().
C16_UniformRangeIsBlockSize ==
    Ready =>
        /\ uniform_bind_group.uniform = [buffer |-> "uniform_buffer", range |-> UniformsSize]
        /\ uniform_buffer.size = uniform_bind_group.uniform.range
        /\ last.op = "update" =>
              /\ last.ret.source.size = uniform_bind_group.uniform.range
              /\ last.ret.copy_size = uniform_bind_group.uniform.range

\* An update() after two rebuilds of the bind group.
C16_Witness ==
    /\ Updated
    /\ uniform_bind_group.layout = 2
    /\ uniform_bind_group.uniform.range = last.ret.copy_size
    /\ camera.eye # InitialEye

\* C17: every object's instance buffer is num_instances * 64 bytes long (64
\* bytes, one 4x4 matrix of f32, per instance), and the range a successful
\* create_instance binds for the modified object's buffer is that size.
C17_InstanceBufferSize ==
    Ready =>
        /\ InstanceRawSize = 64
        /\ \A i \in 1..Len(objects) :
              instance_buffer_size(objects[i]) = num_instances(objects[i]) * 64
        /\ InstanceCreated =>
              /\ uniform_bind_group.instance.buffer =
                    instance_buffer(objects[last.param.object_id + 1])
              /\ uniform_bind_group.instance.range =
                    num_instances(objects[last.param.object_id + 1]) * 64

\* An object without an instance (0 bytes) beside an object whose third
\* instance has just been created (192 bytes bound).
C17_Witness ==
    /\ InstanceCreated
    /\ Len(objects) = 2
    /\ \E i \in 1..2 : num_instances(objects[i]) = 0 /\ instance_buffer_size(objects[i]) = 0
    /\ uniform_bind_group.instance.range = 192

\* The byte size of the buffer the instance binding refers to: the
\* placeholder of State::new or an object's instance buffer.
BoundInstanceBufferSize ==
    IF uniform_bind_group.instance.buffer = PlaceholderBuffer THEN PlaceholderSize
    ELSE LET owner == CHOOSE i \in 1..Len(objects) :
                         instance_buffer(objects[i]) = uniform_bind_group.instance.buffer
         IN  instance_buffer_size(objects[owner])

\* C18: in every state after initialization, the state State::new produces
\* before any instance exists included, the byte range of the instance
\* binding is the full byte size of the buffer the binding refers to.
C18_InstanceRangeIsBufferSize ==
    Ready => uniform_bind_group.instance.range = BoundInstanceBufferSize

(***************************************************************************)
(* Properties of Instance::to_raw (SpecInstance).                          *)
(***************************************************************************)
\* C20: for every instance, of any position and any rotation, the translation
\* column (the fourth column) of the matrix to_raw returns, translation *
\* rotation, is exactly the instance's position (with w = 1).
C20_TranslationColumnIsPosition ==
    last.op = "to_raw" =>
        last.ret.model[4] = <<last.param.instance.position.x,
                              last.param.instance.position.y,
                              last.param.instance.position.z, 1>>

\* A half turn about the y axis at position (3, -2, 3): the rotation block
\* is not the identity and the fourth column is the position.
C20_Witness ==
    /\ last.op = "to_raw"
    /\ last.param.instance =
          [position |-> Vector3(3, -2, 3), rotation |-> Quaternion(0, 0, 1, 0)]
    /\ last.ret.model[1] = <<-1, 0, 0, 0>>
    /\ last.ret.model[3] = <<0, 0, -1, 0>>
    /\ last.ret.model[4] = <<3, -2, 3, 1>>

(***************************************************************************)
(* Properties of the one bind group and of create_object (Spec).           *)
(***************************************************************************)
\* C21: there is one bind group for all objects: every draw of a render()
\* uses it. Its instance binding refers to the placeholder buffer after
\* State::new, to the modified object's instance buffer after a successful
\* create_instance, and to the same buffer as before after any other call
\* that returns (create_object, resize, input, update, render, and a
\* create_instance that returns None): at any time it is the buffer of the
\* object of the most recent successful create_instance, or the placeholder.
C21_OneBindingFollowsLastCreateInstance ==
    [][Ready' =>
        /\ last'.op = "new" => uniform_bind_group'.instance.buffer = PlaceholderBuffer
        /\ last'.op = "render" =>
              \A k \in 1..Len(last'.ret.draws) :
                  last'.ret.draws[k].bind_group = uniform_bind_group'
        /\ Ready =>
              IF last'.op = "create_instance" /\ last'.ret.index # None
              THEN uniform_bind_group'.instance.buffer =
                       instance_buffer(objects'[last'.param.object_id + 1])
              ELSE uniform_bind_group'.instance.buffer = uniform_bind_group.instance.buffer
      ]_vars

\* A render() of two objects with instances, the first of which was the last
\* to get one: both draws use the bind group of the first object's buffer.
C21_Witness ==
    /\ Rendered
    /\ Len(objects) = 2
    /\ num_instances(objects[1]) = 2 /\ num_instances(objects[2]) = 1
    /\ uniform_bind_group.instance.buffer = instance_buffer(objects[1])
    /\ Len(last.ret.draws) = 2
    /\ last.ret.draws[2].bind_group = uniform_bind_group

\* C22: create_object only appends an object without instances: the existing
\* objects (their instances and instance buffers), the bind group, the render
\* pipeline, the camera and the uniform block stay as they were and nothing is
\* rebuilt, so that a render() directly after it submits the draws a render()
\* directly before it would have submitted.
C22_CreateObjectOnlyAppends ==
    [][/\ last'.op = "create_object" =>
            /\ Len(objects') = Len(objects) + 1
            /\ SubSeq(objects', 1, Len(objects)) = objects
            /\ num_instances(objects'[Len(objects')]) = 0
            /\ UNCHANGED <<uniform_bind_group, render_pipeline, camera, uniforms,
                           uniform_buffer>>
            /\ draw_calls(objects', 1, uniform_bind_group')
                  = draw_calls(objects, 1, uniform_bind_group)
       /\ last.op = "create_object" /\ last'.op = "render" /\ Ready' =>
            /\ last'.ret.pipeline = render_pipeline
            /\ last'.ret.draws =
                  draw_calls(SubSeq(objects, 1, Len(objects) - 1), 1, uniform_bind_group)
      ]_vars

\* A second object was created beside one with two instances.
C22_Witness ==
    /\ Ready
    /\ last.op = "create_object"
    /\ Len(objects) = 2
    /\ num_instances(objects[1]) = 2
    /\ num_instances(objects[2]) = 0
    /\ uniform_bind_group.layout = 2
    /\ Len(draw_calls(objects, 1, uniform_bind_group)) = 1

====
